---- MODULE Spec2Model ----
(***************************************************************************)
(* Model of the document ingestion pipeline of the Hebrew RAG backend:     *)
(* the directory watcher (services/periodic_indexer.py), the batch         *)
(* orchestrator (services/document_processor.py) and the hand-over to the  *)
(* vector index (services/rag_agent.py).                                   *)
(*                                                                         *)
(* Specifications:                                                         *)
(*   Spec       the watcher with force_scan and crash/restart              *)
(*   SpecCtl    the watcher under concurrent start/stop/force_scan         *)
(*   FairCtl    SpecCtl with the event loop's fairness                     *)
(*   SpecStore  the watcher over any store file found on disk              *)
(*   SpecFile   process_document and the OCR chain on one file             *)
(*   SpecBatch  process_multiple_documents on a list of paths              *)
(*   SpecPdf    the PDF extractors: text layer, and OCR of rasterized pages *)
(*                                                                         *)
(* Execution model.  Everything runs on one asyncio event loop, so a       *)
(* coroutine is interleaved with the others only where it really suspends: *)
(*   - asyncio.sleep(scan_interval) in the indexing loop,                  *)
(*   - asyncio.gather(...) of a wave in process_multiple_documents,        *)
(*   - await self.task in stop().                                          *)
(* All other awaits of the pipeline call coroutines that never suspend, so *)
(* the extractions of a wave run one after the other, in input order, in   *)
(* the event-loop pass after the gather was entered.                       *)
(* The code between two suspension points is split into several steps so   *)
(* that a process crash can fall between them, but no other coroutine may  *)
(* run while a context is inside such a section (AtomicPcs).               *)
(***************************************************************************)
EXTENDS Integers, Sequences, FiniteSets, TLC

\* ---------------------------------------------------------------- bounds
NumFiles == 2      \* files that may appear in the watch directory
MaxVer == 1        \* times one file name may be written (mtime/size versions)
MaxTasks == 2      \* indexing-loop tasks start() may create in one process run
NumForce == 1      \* concurrent callers of force_scan()
NumStop == 2       \* concurrent callers of stop()
MaxCrashes == 1    \* process crashes followed by a restart
MaxIndexed == 1    \* failed hand-overs that may leave chunks of one file in the index

\* ------------------------------------------------------ program constants
batch_size == 5

Files == 1..NumFiles
LoopTasks == 1..MaxTasks
ForceIds == (MaxTasks + 1)..(MaxTasks + NumForce)
StopIds == 1..NumStop
Ctx == LoopTasks \cup ForceIds
FPs == Files \X (1..MaxVer)

VARIABLES
    enabled,          \* self.enabled (settings.enable_periodic_indexing)
    booted,           \* the process is up and initialize() has run
    crashes,          \* crashes so far
    running,          \* self.running
    task,             \* self.task: id of the last created loop task, 0 = None
    nextTask,         \* id the next asyncio.create_task will get
    pc,               \* position of every loop task and force_scan caller
    cancelReq,        \* loop tasks on which task.cancel() has been called
    batch,            \* per context: the batch handed to the orchestrator
    processed_files,  \* self.processed_files (in memory)
    db,               \* the file processed_files_db on disk
    snapshot,         \* fingerprints of the last complete store snapshot
    dir,              \* watch directory: file -> version present, 0 = absent
    ver,              \* versions written so far per file name
    indexed,          \* vector index: fingerprint -> times its chunks were added
    stopPc,           \* position of every stop() caller
    stopAwait,        \* the task a stop() caller awaits
    fsScans,          \* scans run by the current/last force_scan() call
    scanLog,          \* how the latest scan relates to the scan before it
    init_error,       \* what the last initialize() raised, "none" if nothing
    file,             \* the file handed to process_document, and its world
    result,           \* what process_document returned (or raised)
    ocr_result,       \* what OCRService.extract_text_from_image returned
    file_paths,       \* the paths handed to process_multiple_documents
    wave,             \* the offset i of the wave in flight
    batch_results,    \* results of the gather of that wave, per position
    results,          \* the report process_multiple_documents builds
    calling,          \* position of the process_multiple_documents call
    pdf_pc,           \* position of the extract_text_from_pdf call of the OCR
    page_num,         \* page_num of its page loop (pages done so far)
    all_results,      \* all_results: the per-page list it builds
    tmp_files,        \* pages whose temporary image is on disk
    dots_result,      \* what DotsOCRService.extract_text_from_pdf returned
    ocr,              \* the OCR service: dots.ocr available, initialized, loaded
    cleanups,         \* runs of _cleanup_batch_memory in the call
    inferring,        \* the tasks inside an inference of the primary engine
    loop_owner,       \* the task the event loop is running, Nobody between
    other             \* a second process_multiple_documents call, of one image

vars == <<enabled, booted, crashes, running, task, nextTask, pc, cancelReq,
          batch, processed_files, db, snapshot, dir, ver, indexed, stopPc,
          stopAwait, fsScans, scanLog, init_error, file, result, ocr_result,
          file_paths, wave, batch_results, results, calling, pdf_pc,
          page_num, all_results, tmp_files, dots_result, ocr, cleanups,
          inferring, loop_owner, other>>

conf == <<enabled, booted, crashes>>
pdfv == <<pdf_pc, page_num, all_results, tmp_files, dots_result>>
enginev == <<ocr, cleanups, inferring, loop_owner, other>>
proc == <<file, result, ocr_result, file_paths, wave, batch_results, results,
          calling, pdfv, enginev>>
ctl == <<running, task, nextTask>>
store == <<processed_files, db, snapshot>>
world == <<dir, ver, indexed>>
stops == <<stopPc, stopAwait>>

\* ----------------------------------------------------------------- helpers
Min(a, b) == IF a < b THEN a ELSE b

RECURSIVE SeqOf(_)
\* a set of fingerprints as the list the directory walk yields (by file name)
SeqOf(S) ==
    IF S = {} THEN <<>>
    ELSE LET m == CHOOSE x \in S : \A y \in S : x[1] <= y[1]
         IN <<m>> \o SeqOf(S \ {m})

Range(s) == {s[i] : i \in DOMAIN s}

\* the extension of each file name, and settings.supported_extensions
Ext(f) == IF f % 3 = 0 THEN ".tiff" ELSE IF f % 3 = 1 THEN ".pdf" ELSE ".txt"
supported_extensions == {".pdf", ".docx", ".doc", ".txt", ".png", ".jpg",
                         ".jpeg", ".mp3", ".wav", ".m4a", ".flac"}

\* _get_file_hash: md5 of name, mtime and size; distinct versions of a file
\* and distinct names give distinct keys
FileHash(f, v) == <<f, v>>

NoBatch == [files |-> <<>>, res |-> <<>>, lo |-> 1]

AtomicPcs == {"scan", "wave", "index", "commit", "write", "cleanup"}
ScanPcs == AtomicPcs \cup {"gather"}
AlivePcs == ScanPcs \cup {"created", "sleep"}

\* no other coroutine is between two of its suspension points
Free(c) == \A d \in Ctx \ {c} : pc[d] \notin AtomicPcs
NoneAtomic == \A d \in Ctx : pc[d] \notin AtomicPcs

\* the loop tasks that have been created and have not finished
Alive == {t \in LoopTasks : pc[t] \in AlivePcs}

NoFile == [exists |-> FALSE]
NoResult == [returned |-> FALSE]
NoReport == [successful |-> <<>>, failed |-> <<>>, total_documents |-> 0,
             total_chunks |-> 0]

\* ------------------------------------------------------------------- Init
\* no OCR of a PDF is under way and no temporary page image is on disk
PdfIdle ==
    /\ pdf_pc = "idle"
    /\ page_num = 0
    /\ all_results = <<>>
    /\ tmp_files = {}
    /\ dots_result = NoResult

\* the event loop runs no task
Nobody == 0

\* the second call has not been made
OtherIdle == [pc |-> "idle", cleanups |-> 0, method |-> ""]

\* the OCR service after the startup's initialize() loaded the model, and no
\* inference under way
EngineIdle ==
    /\ ocr = [available |-> TRUE, initialized |-> TRUE, model |-> TRUE]
    /\ cleanups = 0
    /\ inferring = {}
    /\ loop_owner = Nobody
    /\ other = OtherIdle

\* no call of the document processor is under way
ProcIdle ==
    /\ PdfIdle
    /\ EngineIdle
    /\ file = NoFile
    /\ result = NoResult
    /\ ocr_result = NoResult
    /\ file_paths = <<>>
    /\ wave = 0
    /\ batch_results = <<>>
    /\ results = NoReport
    /\ calling = "idle"

\* the watcher after construction, with the store file db on disk
WatcherInit(d) ==
    /\ enabled \in BOOLEAN
    /\ booted = FALSE
    /\ crashes = 0
    /\ running = FALSE
    /\ task = 0
    /\ nextTask = 1
    /\ pc = [c \in Ctx |-> IF c \in LoopTasks THEN "none" ELSE "idle"]
    /\ cancelReq = {}
    /\ batch = [c \in Ctx |-> NoBatch]
    /\ processed_files = {}
    /\ db = d
    /\ snapshot = IF d.kind = "valid" THEN d.fps ELSE {}
    /\ dir = [f \in Files |-> 0]
    /\ ver = [f \in Files |-> 0]
    /\ indexed = [fp \in FPs |-> 0]
    /\ stopPc = [s \in StopIds |-> "idle"]
    /\ stopAwait = [s \in StopIds |-> 0]
    /\ fsScans = [c \in ForceIds |-> 0]
    /\ scanLog = "none"
    /\ init_error = "none"

\* no store file on disk yet
NoStore == [kind |-> "missing", fps |-> {}, total_processed |-> 0]

Init == WatcherInit(NoStore) /\ ProcIdle

\* ------------------------------------------------------------ environment
\* another process writes (creates or touches) a file of the watch directory
WriteFile(f) ==
    /\ ver[f] < MaxVer
    /\ ver' = [ver EXCEPT ![f] = @ + 1]
    /\ dir' = [dir EXCEPT ![f] = ver[f] + 1]
    /\ scanLog' = "none"
    /\ UNCHANGED <<proc, init_error, conf, ctl, pc, cancelReq, batch, store, indexed, stops,
                   fsScans>>

\* --------------------------------------------------------- fingerprint store
\* the store file as _load_processed_files may find it:
\*   missing     the path does not exist
\*   unreadable  open() raises (permissions, a directory in its place)
\*   unparsable  json.load raises (garbage); partial: a truncated write
\*   wrongshape  valid JSON whose top level is not an object: data.get raises
\*   nokey       a JSON object without "processed_files"
\*   valid       what _save_processed_files wrote
StoreKinds == {"missing", "unreadable", "unparsable", "partial", "wrongshape",
               "nokey", "valid"}

\* the exception the try body of _load_processed_files runs into, if any
LoadError(d) ==
    CASE d.kind = "unreadable" -> "OSError"
      [] d.kind \in {"unparsable", "partial"} -> "JSONDecodeError"
      [] d.kind = "wrongshape" -> "AttributeError"
      [] OTHER -> "none"

\* the store files a process may find on disk when it starts
StoreFiles ==
    {[kind |-> k, fps |-> {}, total_processed |-> 0] :
        k \in StoreKinds \ {"valid"}}
    \cup {[kind |-> "valid", fps |-> S, total_processed |-> Cardinality(S)] :
            S \in SUBSET FPs}

\* mutant: the handler of the load catches parse errors only
LoadCaught_JsonOnly(exc) == exc = "JSONDecodeError"

\* "except Exception" of _load_processed_files catches each of them
LoadCaught(exc) == exc \in {"OSError", "JSONDecodeError", "AttributeError"}

\* _load_processed_files: set(data.get("processed_files", [])) of a store that
\* reads and parses; the empty set for a missing store and after any error
LoadProcessedFiles(d) ==
    IF LoadError(d) = "none" /\ d.kind = "valid" THEN d.fps ELSE {}

\* an exception of the load that its handler does not catch
LoadRaises(d) == LoadError(d) # "none" /\ ~LoadCaught(LoadError(d))

\* initialize(): a disabled indexer returns before loading anything; else the
\* watch directory is created (mkdir_ok: that works) and the store is loaded;
\* whatever these raise is raised again to the caller and startup fails
Initialize(mkdir_ok) ==
    /\ ~booted
    /\ IF ~enabled
       THEN /\ booted' = TRUE
            /\ init_error' = "none"
            /\ UNCHANGED processed_files
       ELSE IF ~mkdir_ok
       THEN /\ init_error' = "mkdir"
            /\ UNCHANGED <<booted, processed_files>>
       ELSE IF LoadRaises(db)
       THEN /\ init_error' = "load"
            /\ UNCHANGED <<booted, processed_files>>
       ELSE /\ booted' = TRUE
            /\ init_error' = "none"
            /\ processed_files' = LoadProcessedFiles(db)
    /\ UNCHANGED <<proc, enabled, crashes, ctl, pc, cancelReq, batch, db, snapshot,
                   world, stops, fsScans, scanLog>>

\* the process dies at any point; memory is lost, the disk, the watch
\* directory and the vector index are kept; the process is then restarted
Crash ==
    /\ booted
    /\ crashes < MaxCrashes
    /\ crashes' = crashes + 1
    /\ booted' = FALSE
    /\ running' = FALSE
    /\ task' = 0
    /\ nextTask' = 1
    /\ pc' = [c \in Ctx |-> IF c \in LoopTasks THEN "none" ELSE "idle"]
    /\ cancelReq' = {}
    /\ batch' = [c \in Ctx |-> NoBatch]
    /\ processed_files' = {}
    /\ stopPc' = [s \in StopIds |-> "idle"]
    /\ stopAwait' = [s \in StopIds |-> 0]
    /\ fsScans' = [c \in ForceIds |-> 0]
    /\ scanLog' = "none"
    /\ UNCHANGED <<proc, enabled, db, snapshot, world, init_error>>

\* ------------------------------------------------------------ start / stop
\* start(): no-op when disabled or already running, else one new loop task
Start ==
    /\ booted /\ NoneAtomic
    /\ IF enabled /\ ~running
       THEN /\ nextTask <= MaxTasks
            /\ running' = TRUE
            /\ task' = nextTask
            /\ nextTask' = nextTask + 1
            /\ pc' = [pc EXCEPT ![nextTask] = "created"]
       ELSE UNCHANGED <<ctl, pc>>
    /\ UNCHANGED <<proc, init_error, conf, cancelReq, batch, store, world, stops, fsScans,
                   scanLog>>

\* stop() up to its await: returns at once when not running, else clears
\* running, cancels self.task and awaits it (a finished task is not awaited)
StopCall(s) ==
    /\ booted /\ NoneAtomic
    /\ stopPc[s] \in {"idle", "returned"}
    /\ IF ~running
       THEN /\ stopPc' = [stopPc EXCEPT ![s] = "returned"]
            /\ UNCHANGED <<running, cancelReq, stopAwait>>
       ELSE /\ running' = FALSE
            /\ IF task # 0 /\ pc[task] \in AlivePcs
               THEN /\ cancelReq' = cancelReq \cup {task}
                    /\ stopAwait' = [stopAwait EXCEPT ![s] = task]
                    /\ stopPc' = [stopPc EXCEPT ![s] = "awaiting"]
               ELSE /\ stopPc' = [stopPc EXCEPT ![s] = "returned"]
                    /\ UNCHANGED <<cancelReq, stopAwait>>
    /\ UNCHANGED <<proc, init_error, conf, task, nextTask, pc, batch, store, world, fsScans,
                   scanLog>>

\* stop() resumes from "await self.task" once that task has finished
StopReturn(s) ==
    /\ booted /\ NoneAtomic
    /\ stopPc[s] = "awaiting"
    /\ pc[stopAwait[s]] = "done"
    /\ stopPc' = [stopPc EXCEPT ![s] = "returned"]
    /\ stopAwait' = [stopAwait EXCEPT ![s] = 0]
    /\ UNCHANGED <<proc, init_error, conf, ctl, pc, cancelReq, batch, store, world, fsScans,
                   scanLog>>

\* ----------------------------------------------------------- indexing loop
\* mutant: the loop sleeps before its first scan
LoopRun_SleepFirst(t) ==
    /\ booted /\ Free(t)
    /\ pc[t] = "created"
    /\ t \notin cancelReq
    /\ pc' = [pc EXCEPT ![t] = IF running THEN "sleep" ELSE "done"]
    /\ UNCHANGED <<proc, init_error, conf, ctl, cancelReq, batch, store, world,
                   stops, fsScans, scanLog>>

\* first step of a created task: "while self.running" and into the scan
LoopRun(t) ==
    /\ booted /\ Free(t)
    /\ pc[t] = "created"
    /\ t \notin cancelReq
    /\ pc' = [pc EXCEPT ![t] = IF running THEN "scan" ELSE "done"]
    /\ UNCHANGED <<proc, init_error, conf, ctl, cancelReq, batch, store, world, stops, fsScans,
                   scanLog>>

\* asyncio.sleep(scan_interval) elapses: next "while self.running" test
LoopWake(t) ==
    /\ booted /\ Free(t)
    /\ pc[t] = "sleep"
    /\ t \notin cancelReq
    /\ pc' = [pc EXCEPT ![t] = IF running THEN "scan" ELSE "done"]
    /\ UNCHANGED <<proc, init_error, conf, ctl, cancelReq, batch, store, world, stops, fsScans,
                   scanLog>>

\* CancelledError is thrown into a cancelled task where it is suspended: before
\* its first step, in the sleep, or in the gather of a wave (whose extractions
\* are cancelled with it); the loop breaks and the rest of the scan never runs
LoopCancelled(t) ==
    /\ booted /\ NoneAtomic
    /\ t \in cancelReq
    /\ pc[t] \in {"created", "sleep", "gather"}
    /\ pc' = [pc EXCEPT ![t] = "done"]
    /\ cancelReq' = cancelReq \ {t}
    /\ batch' = [batch EXCEPT ![t] = NoBatch]
    /\ scanLog' = IF pc[t] = "gather" THEN "none" ELSE scanLog
    /\ UNCHANGED <<proc, init_error, conf, ctl, store, world, stops, fsScans>>

\* -------------------------------------------------------------- force_scan
\* mutant: force_scan() without the test of self.enabled
ForceScan_NoEnabledTest(c) ==
    /\ booted /\ NoneAtomic
    /\ pc[c] \in {"idle", "returned"}
    /\ fsScans' = [fsScans EXCEPT ![c] = 0]
    /\ pc' = [pc EXCEPT ![c] = "scan"]
    /\ UNCHANGED <<proc, init_error, conf, ctl, cancelReq, batch, store, world, stops, scanLog>>

\* force_scan(): returns without scanning when disabled, else runs one scan
ForceScan(c) ==
    /\ booted /\ NoneAtomic
    /\ pc[c] \in {"idle", "returned"}
    /\ fsScans' = [fsScans EXCEPT ![c] = 0]
    /\ pc' = [pc EXCEPT ![c] = IF enabled THEN "scan" ELSE "returned"]
    /\ UNCHANGED <<proc, init_error, conf, ctl, cancelReq, batch, store, world, stops, scanLog>>

\* --------------------------------------------------------- _scan_and_index
\* mutant: the scan without the test against self.processed_files
NewFiles_NoDedup ==
    {FileHash(f, dir[f]) : f \in {g \in Files :
        dir[g] # 0 /\ Ext(g) \in supported_extensions}}

\* the candidates of a scan: supported files whose hash is not yet recorded
NewFiles ==
    {FileHash(f, dir[f]) : f \in {g \in Files :
        /\ dir[g] # 0
        /\ Ext(g) \in supported_extensions
        /\ FileHash(g, dir[g]) \notin processed_files}}

\* mutant: the error of a failed scan escapes the loop iteration
AfterScan_ErrorEndsLoop(c, outcome) ==
    IF c \in LoopTasks
    THEN (IF outcome \in {"error", "failed"} THEN "done" ELSE "sleep")
    ELSE "returned"

\* where a context goes when _scan_and_index returns, whatever the outcome:
\* the loop goes to sleep, force_scan returns
AfterScan(c, outcome) == IF c \in LoopTasks THEN "sleep" ELSE "returned"

\* bookkeeping of a finished scan: its outcome stands for "the scan before"
\* only if nothing was written and no other scan ran since its directory walk
EndScan(c, outcome) ==
    scanLog' = IF scanLog = "clean" THEN outcome ELSE "none"

\* the directory walk of _scan_and_index up to the gather of the first wave;
\* a walk that raises is logged and ends the scan
DoScan(c, raises) ==
    /\ booted
    /\ pc[c] = "scan"
    /\ fsScans' = [d \in ForceIds |-> IF d = c THEN fsScans[d] + 1 ELSE fsScans[d]]
    /\ IF raises \/ NewFiles = {}
       THEN /\ pc' = [pc EXCEPT ![c] = AfterScan(c, IF raises THEN "error" ELSE "ok")]
            /\ scanLog' = IF \E d \in Ctx \ {c} : pc[d] \in ScanPcs THEN "none"
                          ELSE IF raises THEN "error"
                          ELSE IF scanLog \in {"ok", "rescanned"} THEN "rescanned"
                          ELSE "ok"
            /\ UNCHANGED batch
       ELSE /\ pc' = [pc EXCEPT ![c] = "gather"]
            /\ batch' = [batch EXCEPT ![c] =
                   [files |-> SeqOf(NewFiles),
                    res |-> [i \in 1..Cardinality(NewFiles) |-> "pending"],
                    lo |-> 1]]
            /\ scanLog' = IF \E d \in Ctx \ {c} : pc[d] \in ScanPcs
                          THEN "none" ELSE "clean"
    /\ UNCHANGED <<proc, init_error, conf, ctl, cancelReq, store, world, stops>>

\* ---------------------------------------------- process_multiple_documents
\* indices of the wave in flight
Wave(b) == b.lo..Min(b.lo + batch_size - 1, Len(b.files))

\* results["successful"] and results["failed"], in input order
Successful(b) == SelectSeq(b.files, LAMBDA fp :
                    \E i \in DOMAIN b.files : b.files[i] = fp /\ b.res[i] = "ok")
Failed(b) == SelectSeq(b.files, LAMBDA fp :
                    \E i \in DOMAIN b.files :
                        b.files[i] = fp /\ b.res[i] \in {"fail", "exc"})

\* the files of the wave in flight that have no result yet
Pending(b) == {i \in Wave(b) : b.res[i] = "pending"}

\* process_document of the next file of the wave: a file that is gone fails
\* with "File not found", otherwise extraction succeeds, fails or throws;
\* after the last file of the wave the gather is ready to return
ProcessDocument(c, i, outcome) ==
    /\ booted /\ Free(c)
    /\ pc[c] \in {"gather", "wave"}
    /\ c \notin cancelReq
    /\ i \in Pending(batch[c])
    /\ \A j \in Pending(batch[c]) : i <= j
    /\ dir[batch[c].files[i][1]] = 0 => outcome = "fail"
    /\ batch' = [batch EXCEPT ![c].res[i] = outcome]
    /\ pc' = [pc EXCEPT ![c] = IF Pending(batch[c]) = {i} THEN "gather" ELSE "wave"]
    /\ UNCHANGED <<proc, init_error, conf, ctl, cancelReq, store, world, stops, fsScans,
                   scanLog>>

\* the gather of a wave returns; after the last wave process_and_add_files
\* either reports "No documents were successfully processed" or goes on to
\* the vector index
WaveDone(c) ==
    /\ booted /\ Free(c)
    /\ pc[c] = "gather"
    /\ c \notin cancelReq
    /\ Pending(batch[c]) = {}
    /\ IF batch[c].lo + batch_size <= Len(batch[c].files)
       THEN /\ batch' = [batch EXCEPT ![c].lo = @ + batch_size]
            /\ UNCHANGED <<pc, scanLog>>
       ELSE IF Successful(batch[c]) = <<>>
            THEN /\ pc' = [pc EXCEPT ![c] = AfterScan(c, "failed")]
                 /\ batch' = [batch EXCEPT ![c] = NoBatch]
                 /\ EndScan(c, "failed")
            ELSE /\ pc' = [pc EXCEPT ![c] = "index"]
                 /\ UNCHANGED <<batch, scanLog>>
    /\ UNCHANGED <<proc, init_error, conf, ctl, cancelReq, store, world, stops, fsScans>>

\* ------------------------------------------------------------ add_documents
\* the prefixes of a list, the empty one and the whole list included
Prefixes(s) == {SubSeq(s, 1, n) : n \in 0..Len(s)}

\* mutant: a failed hand-over is not reported: the scan goes on to the commit
AddFailed_Ignored(c) == "commit"

\* where the scan goes when add_documents returned success = False
AddFailed(c) == AfterScan(c, "failed")

\* the chunks of the successful files are handed to the vector index, which
\* takes them in batches of 100; when a batch throws, the chunks of the files
\* before it (added) stay in the index, the result has success = False and
\* the scan ends
AddDocuments(c, ok, added) ==
    /\ booted
    /\ pc[c] = "index"
    /\ added \in Prefixes(Successful(batch[c]))
    /\ IF ok
       THEN /\ added = Successful(batch[c])
            /\ indexed' = [fp \in FPs |->
                   IF fp \in Range(Successful(batch[c]))
                   THEN indexed[fp] + 1 ELSE indexed[fp]]
            /\ pc' = [pc EXCEPT ![c] = "commit"]
            /\ UNCHANGED <<batch, scanLog>>
       ELSE /\ \A fp \in Range(added) : indexed[fp] < MaxIndexed
            /\ indexed' = [fp \in FPs |->
                   IF fp \in Range(added) THEN indexed[fp] + 1 ELSE indexed[fp]]
            /\ pc' = [pc EXCEPT ![c] = AddFailed(c)]
            /\ IF AddFailed(c) = "commit"
               THEN UNCHANGED <<batch, scanLog>>
               ELSE /\ batch' = [batch EXCEPT ![c] = NoBatch]
                    /\ EndScan(c, "failed")
    /\ UNCHANGED <<proc, init_error, conf, ctl, cancelReq, store, dir, ver, stops, fsScans>>

\* ------------------------------------------------------ _process_new_files
\* the hashes _process_new_files records after result["success"]
MarkedHashes(b) == Range(b.files)

\* result["success"]: every hash of the batch is added to the in-memory set,
\* then _save_processed_files opens the store for writing, which truncates
\* it; an open that fails is logged and the store is left as it was
MarkAndOpen(c, writable) ==
    /\ booted
    /\ pc[c] = "commit"
    /\ processed_files' = processed_files \cup MarkedHashes(batch[c])
    /\ IF writable
       THEN /\ db' = [kind |-> "partial", fps |-> {}, total_processed |-> 0]
            /\ pc' = [pc EXCEPT ![c] = "write"]
       ELSE /\ pc' = [pc EXCEPT ![c] = "cleanup"]
            /\ UNCHANGED db
    /\ UNCHANGED <<proc, init_error, conf, ctl, cancelReq, batch, snapshot, world, stops,
                   fsScans, scanLog>>

\* mutant: the save writes the fingerprints of the batch, not the whole set
SaveProcessedFiles_OnlyNew(c, ok) ==
    /\ booted
    /\ pc[c] = "write"
    /\ IF ok
       THEN /\ db' = [kind |-> "valid", fps |-> MarkedHashes(batch[c]),
                       total_processed |-> Cardinality(MarkedHashes(batch[c]))]
            /\ snapshot' = processed_files
       ELSE UNCHANGED <<db, snapshot>>
    /\ pc' = [pc EXCEPT ![c] = "cleanup"]
    /\ UNCHANGED <<proc, init_error, conf, ctl, cancelReq, batch,
                   processed_files, world, stops, fsScans, scanLog>>

\* json.dump into the opened store: the whole in-memory set is written, or
\* the write fails part-way (logged) and leaves a truncated file
SaveProcessedFiles(c, ok) ==
    /\ booted
    /\ pc[c] = "write"
    /\ IF ok
       THEN /\ db' = [kind |-> "valid", fps |-> processed_files,
                       total_processed |-> Cardinality(processed_files)]
            /\ snapshot' = processed_files
       ELSE UNCHANGED <<db, snapshot>>
    /\ pc' = [pc EXCEPT ![c] = "cleanup"]
    /\ UNCHANGED <<proc, init_error, conf, ctl, cancelReq, batch, processed_files, world, stops,
                   fsScans, scanLog>>

\* the paths _process_new_files hands to _cleanup_processed_files
CleanupPaths(b) == {fp[1] : fp \in Range(b.files)}

\* _cleanup_processed_files: every path of the batch is unlinked; an unlink
\* that fails (stuck: the files whose unlink fails) is logged and skipped
CleanupProcessedFiles(c, stuck) ==
    /\ booted
    /\ pc[c] = "cleanup"
    /\ stuck \subseteq CleanupPaths(batch[c])
    /\ \A f \in CleanupPaths(batch[c]) : dir[f] = 0 => f \in stuck
    /\ dir' = [f \in Files |->
                  IF f \in CleanupPaths(batch[c]) \ stuck THEN 0 ELSE dir[f]]
    /\ pc' = [pc EXCEPT ![c] = AfterScan(c, "ok")]
    /\ batch' = [batch EXCEPT ![c] = NoBatch]
    /\ EndScan(c, "ok")
    /\ UNCHANGED <<proc, init_error, conf, ctl, cancelReq, store, ver, indexed, stops, fsScans>>

\* ======================================================== document processor
\* ---------------------------------------------------------------- bounds
SizeSlack == 1     \* sizes tried around the limit: limit - slack .. limit + slack
MaxChunks == 2     \* chunks the splitter may cut one document into
MaxElements == 2   \* layout elements in the primary engine's output

\* ------------------------------------------------------ program constants
max_file_size_mb == 100
MB == 1024 * 1024

\* the variables of the watcher
watcher == <<enabled, booted, crashes, running, task, nextTask, pc, cancelReq,
             batch, processed_files, db, snapshot, dir, ver, indexed, stopPc,
             stopAwait, fsScans, scanLog, init_error>>

\* suffixes as written, and file_path.suffix.lower()
Exts == {".pdf", ".docx", ".doc", ".txt", ".png", ".jpg", ".jpeg", ".tiff",
         ".bmp", ".mp3", ".wav", ".m4a", ".flac", ".PDF", ".exe", ".csv", ""}
Lower(ext) == IF ext = ".PDF" THEN ".pdf" ELSE ext

\* type_mapping of _get_file_type
type_mapping ==
    [e \in {".pdf", ".docx", ".doc", ".txt", ".png", ".jpg", ".jpeg", ".tiff",
            ".bmp", ".mp3", ".wav", ".m4a", ".flac"} |->
        CASE e = ".pdf" -> "pdf"
          [] e = ".docx" -> "docx"
          [] e = ".doc" -> "doc"
          [] e = ".txt" -> "txt"
          [] e \in {".png", ".jpg", ".jpeg", ".tiff", ".bmp"} -> "image"
          [] OTHER -> "audio"]

\* mutant: an unmapped suffix is treated as plain text
get_file_type_DefaultTxt(ext) ==
    IF Lower(ext) \in DOMAIN type_mapping THEN type_mapping[Lower(ext)]
    ELSE "txt"

\* _get_file_type: type_mapping.get(extension, 'unknown')
get_file_type(ext) ==
    IF Lower(ext) \in DOMAIN type_mapping THEN type_mapping[Lower(ext)]
    ELSE "unknown"

\* mutant: a file exactly at the limit is rejected too
TooLarge_AtLimit(size) == size >= max_file_size_mb * MB

\* file_size_mb > settings.max_file_size_mb, with file_size_mb the float
\* st_size / 2^20 (exact for sizes below 2^53)
TooLarge(size) == size > max_file_size_mb * MB

\* f"{file_size_mb:.1f}": the size in tenths of a megabyte, rounded
Tenths(size) == (size * 20 + MB) \div (2 * MB)

\* the error strings, as the list of their parts
NotFoundError == <<"File not found: ">>
FileTooLargeError(size) ==
    <<"File too large: ", Tenths(size), "MB (max: ", max_file_size_mb, "MB)">>
UnsupportedError(ext) == <<"Unsupported file type: ", ext>>

\* a file handed to process_document together with what processing it will
\* meet: exists()/stat() of the path, its size and suffix, how extraction and
\* chunking go, the OCR engines, the transcription collaborator
DefaultFile ==
    [exists |-> TRUE, stat_ok |-> TRUE, size |-> 0, ext |-> ".txt",
     extract |-> "ok", chunks |-> 1,
     dots_available |-> TRUE, model_loaded |-> TRUE, dots_throws |-> FALSE,
     dots_output |-> "object", elements |-> <<>>,
     tesseract_available |-> TRUE, tesseract_throws |-> FALSE,
     transcription |-> "initialized", init_ok |-> TRUE, transcribe |-> "ok"]

\* the text the primary engine generates for an image, by what json.loads
\* makes of it: not JSON at all, an object with an "elements" list, an object
\* without that key, or a JSON array of the elements
DotsOutputs == {"not_json", "object", "no_elements", "array"}

\* the layout categories the extractors tell apart (the rest is text)
Categories == {"Table", "Formula", "Text", "Picture"}

\* the layout elements of an output, in reading order
ElementLists == UNION {[1..n -> Categories] : n \in 0..MaxElements}

Sizes == {0} \cup ((max_file_size_mb * MB - SizeSlack)..
                   (max_file_size_mb * MB + SizeSlack))

FileInputs ==
    {[DefaultFile EXCEPT !.exists = x, !.stat_ok = s, !.size = z, !.ext = e] :
        x \in BOOLEAN, s \in BOOLEAN, z \in Sizes, e \in Exts}
    \cup {[DefaultFile EXCEPT !.ext = e, !.extract = o, !.chunks = n] :
            e \in {".pdf", ".docx", ".doc", ".txt"},
            o \in {"ok", "fail", "raise"}, n \in 0..MaxChunks}
    \cup {[DefaultFile EXCEPT !.ext = ".png", !.dots_available = da,
                              !.dots_throws = dt, !.tesseract_available = ta,
                              !.tesseract_throws = tt] :
            da \in BOOLEAN, dt \in BOOLEAN, ta \in BOOLEAN, tt \in BOOLEAN}
    \cup {[DefaultFile EXCEPT !.ext = ".png", !.model_loaded = ml,
                              !.dots_output = o, !.elements = es,
                              !.chunks = n] :
            ml \in BOOLEAN, o \in DotsOutputs, es \in ElementLists,
            n \in 1..MaxChunks}
    \cup {[DefaultFile EXCEPT !.ext = ".wav", !.transcription = t,
                              !.init_ok = io, !.transcribe = o] :
            t \in {"import_error", "none", "uninitialized", "initialized"},
            io \in BOOLEAN, o \in {"ok", "fail", "raise"}}

\* ------------------------------------------------------------- OCR service
\* mutant: the message of the second failure replaces that of the first
BothFailedError_TesseractOnly(dots, tess) == <<tess>>

\* f"Both OCR methods failed. Dots: {result['error']}, Tesseract: {str(e)}"
BothFailedError(dots, tess) ==
    <<"Both OCR methods failed. Dots: ", dots, ", Tesseract: ", tess>>

\* task_type of the OCR calls
TaskTypes == {"full", "layout_only", "ocr_only"}

\* what the primary engine raises: without a loaded model the RuntimeError
\* of its first statement, else the error of the inference
DotsError(f) ==
    IF ~f.model_loaded THEN "Dots.OCR model not initialized" ELSE "DotsError"

\* "parsed": None
NoParse == [kind |-> "None", elements |-> <<>>]

\* the text of the i-th layout element, as a list of words; a Picture has
\* its text omitted
ElementText(category, i) ==
    IF category = "Picture" THEN <<>> ELSE <<"element", ToString(i)>>

\* json.loads(output_text) of a full or layout_only task: None when the text
\* is not JSON (and for ocr_only, which is not parsed)
Parsed(f, task_type) ==
    IF task_type = "ocr_only" \/ f.dots_output = "not_json" THEN NoParse
    ELSE [kind |-> f.dots_output,
          elements |-> [i \in DOMAIN f.elements |->
                           [category |-> f.elements[i],
                            text |-> ElementText(f.elements[i], i)]]]

\* the attempt on the primary engine: skipped when dots.ocr is not available,
\* else its result or the error it threw; error "None" is Python's None
OcrPrimary(f, task_type) ==
    IF ~f.dots_available
    THEN [done |-> FALSE, error |-> "None", attempts |-> <<>>]
    ELSE IF ~f.model_loaded \/ f.dots_throws
    THEN [done |-> FALSE, error |-> DotsError(f), attempts |-> <<"dots.ocr">>]
    ELSE [done |-> TRUE, error |-> "None", attempts |-> <<"dots.ocr">>,
          text |-> <<"DotsText">>, parsed |-> Parsed(f, task_type)]

\* OCRService.extract_text_from_image: dots.ocr first, then Tesseract if
\* enabled and available; attempts lists the engines that were invoked
extract_text_from_image(f, use_fallback, task_type) ==
    LET p == OcrPrimary(f, task_type)
        r == [returned |-> TRUE, use_fallback |-> use_fallback,
              task_type |-> task_type,
              success |-> FALSE, method |-> "", text |-> <<>>,
              parsed |-> NoParse,
              error |-> IF p.error = "None" THEN <<>> ELSE <<p.error>>,
              attempts |-> p.attempts]
    IN IF p.done
       THEN [r EXCEPT !.success = TRUE, !.method = "dots.ocr",
                      !.text = p.text, !.parsed = p.parsed]
       ELSE IF use_fallback /\ f.tesseract_available
       THEN IF ~f.tesseract_throws
            THEN [r EXCEPT !.success = TRUE, !.method = "tesseract",
                           !.text = <<"TesseractText">>,
                           !.error = <<>>,
                           !.attempts = p.attempts \o <<"tesseract">>]
            ELSE [r EXCEPT !.error = BothFailedError(p.error, "TesseractError"),
                           !.attempts = p.attempts \o <<"tesseract">>]
       ELSE r

\* -------------------------------------------------------------- extractors
\* the metadata of an extraction and of the document made from it; a key
\* the code leaves out is FALSE, 0 or ""
BaseMetadata(file_type) ==
    [file_type |-> file_type, ocr_method |-> "", has_layout_info |-> FALSE,
     layout_elements |-> 0, text_elements |-> 0, table_elements |-> 0,
     formula_elements |-> 0, has_tables |-> FALSE, has_formulas |-> FALSE,
     has_text_blocks |-> FALSE, ocr_enhanced |-> FALSE,
     layout_aware |-> FALSE]
NoMetadata == BaseMetadata("")

\* what an extractor hands back to process_document; the extractors of text
\* give one content item without a type
Extracted(by) ==
    [success |-> TRUE, error |-> <<>>, extractor |-> by,
     content |-> <<[type |-> "text", content |-> <<by>>]>>,
     metadata |-> BaseMetadata(by)]
NotExtracted(by, err) ==
    [success |-> FALSE, error |-> err, extractor |-> by, content |-> <<>>,
     metadata |-> BaseMetadata(by)]

\* the elements of a category set, in reading order
ElementsOf(elements, cats) == SelectSeq(elements, LAMBDA e : e.category \in cats)

RECURSIVE Join(_)
\* "\n".join of the texts of a list of elements
Join(elements) ==
    IF elements = <<>> THEN <<>>
    ELSE Head(elements).text \o Join(Tail(elements))

\* mutant: no raw text item when the layout gave no item
RawFallback_None(items, raw_text) == items

\* "if not content_items": the raw text is the only item then
RawFallback(items, raw_text) ==
    IF items = <<>> THEN <<[type |-> "raw_text", content |-> raw_text]>>
    ELSE items

\* the content items made of the layout elements: one text block of all
\* elements that are neither table nor formula, then an item per table, then
\* an item per formula
LayoutItems(elements) ==
    LET texts == ElementsOf(elements, Categories \ {"Table", "Formula"})
        tables == ElementsOf(elements, {"Table"})
        formulas == ElementsOf(elements, {"Formula"})
    IN (IF texts = <<>> THEN <<>>
        ELSE <<[type |-> "text_block", content |-> Join(texts)]>>)
       \o [i \in DOMAIN tables |->
             [type |-> "table", content |-> tables[i].text]]
       \o [i \in DOMAIN formulas |->
             [type |-> "formula", content |-> formulas[i].text]]

\* "layout_data and isinstance(layout_data, dict)" and its "elements" list:
\* an object without that key has none, anything else is not looked into
LayoutElements(parsed) ==
    IF parsed.kind = "object" THEN parsed.elements ELSE <<>>

\* ImageProcessor.extract_text: the OCR result as typed content items with
\* the raw text as the item of last resort, or the error of the OCR
ImageExtract(f) ==
    LET o == extract_text_from_image(f, TRUE, "full")
        elements == LayoutElements(o.parsed)
        md == [BaseMetadata("image") EXCEPT
                  !.ocr_method = o.method,
                  !.has_layout_info = (o.parsed # NoParse)]
    IN IF o.success
       THEN [success |-> TRUE, error |-> <<>>, extractor |-> "image",
             content |-> RawFallback(LayoutItems(elements), o.text),
             metadata |->
                 IF o.parsed.kind \in {"object", "no_elements"}
                 THEN [md EXCEPT
                         !.layout_elements = Len(elements),
                         !.text_elements = Len(ElementsOf(elements,
                             Categories \ {"Table", "Formula"})),
                         !.table_elements = Len(ElementsOf(elements, {"Table"})),
                         !.formula_elements =
                             Len(ElementsOf(elements, {"Formula"}))]
                 ELSE md]
       ELSE [NotExtracted("image", o.error) EXCEPT !.metadata = md]

\* mutant: only a failed import counts as "not available"
TranscriptionAvailable_ImportOnly(f) == f.transcription # "import_error"

\* "from services import transcription_service" worked and gave an object
TranscriptionAvailable(f) == f.transcription \notin {"import_error", "none"}

\* AudioProcessor.extract_text: unavailable collaborator, initialization on
\* demand, transcription; whatever else is raised ends in the generic handler
AudioExtract(f) ==
    IF ~TranscriptionAvailable(f)
    THEN NotExtracted("audio", <<"Transcription service not available">>)
    ELSE IF f.transcription = "none"
    THEN NotExtracted("audio", <<"AttributeError">>)
    ELSE IF f.transcription = "uninitialized" /\ ~f.init_ok
    THEN NotExtracted("audio",
            <<"Transcription service initialization failed: ", "InitError">>)
    ELSE IF f.transcribe = "ok" THEN Extracted("audio")
    ELSE NotExtracted("audio", <<"TranscribeError">>)

\* PDFProcessor, DocxProcessor, _process_text_file: their own handlers turn an
\* error into a failed result
TextExtract(kind, f) ==
    IF f.extract = "fail" THEN NotExtracted(kind, <<"ExtractError">>)
    ELSE Extracted(kind)

\* self.processors[file_type].extract_text(file_path)
Extraction(kind, f) ==
    CASE kind = "image" -> ImageExtract(f)
      [] kind = "audio" -> AudioExtract(f)
      [] OTHER -> TextExtract(kind, f)

\* --------------------------------------------------------- process_document
\* the markers the normalizer puts around a table and around a formula (the
\* source writes them in Hebrew: [tavla] ... [/tavla], [nuscha] ... [/nuscha])
TableOpen == <<"[table]">>
TableClose == <<"[/table]">>
FormulaOpen == <<"[formula]">>
FormulaClose == <<"[/formula]">>

\* one content item as it is appended to full_text
Rendered(item) ==
    CASE item.type = "table" -> <<TableOpen, item.content, TableClose>>
      [] item.type = "formula" -> <<FormulaOpen, item.content, FormulaClose>>
      [] OTHER -> <<item.content>>

RECURSIVE FullText(_)
\* full_text: the content items in order, each rendered by its type
FullText(items) ==
    IF items = <<>> THEN <<>>
    ELSE Rendered(Head(items)) \o FullText(Tail(items))

\* layout_metadata merged into the metadata of the extraction, with the OCR
\* counts when the extraction has layout information
DocMetadata(x) ==
    LET has(t) == \E i \in DOMAIN x.content : x.content[i].type = t
    IN [x.metadata EXCEPT
          !.layout_aware = TRUE,
          !.has_tables = has("table"),
          !.has_formulas = has("formula"),
          !.has_text_blocks = has("text_block"),
          !.ocr_enhanced = x.metadata.has_layout_info]

\* split_text: the chunks of the document, each with a copy of the
\* document's metadata, its index and the number of chunks
Chunks(n, md) ==
    [k \in 1..n |-> [chunk_id |-> k - 1, total_chunks |-> n, metadata |-> md]]

Failure(err, by) ==
    [returned |-> TRUE, raised |-> FALSE, success |-> FALSE, error |-> err,
     documents |-> <<>>, extractor |-> by, full_text |-> <<>>,
     metadata |-> NoMetadata]

\* process_document: existence, size and type gates, extraction, the
\* normalizer and chunking; only stat() of a path that vanished after
\* exists() is outside every handler
process_document(f) ==
    IF ~f.exists THEN Failure(NotFoundError, "none")
    ELSE IF ~f.stat_ok
    THEN [Failure(<<"OSError">>, "none") EXCEPT !.raised = TRUE]
    ELSE IF TooLarge(f.size) THEN Failure(FileTooLargeError(f.size), "none")
    ELSE IF get_file_type(f.ext) = "unknown"
    THEN Failure(UnsupportedError(f.ext), "none")
    ELSE LET x == Extraction(get_file_type(f.ext), f)
         IN IF ~x.success
            THEN [Failure(x.error, x.extractor) EXCEPT !.metadata = x.metadata]
            ELSE IF f.extract = "raise"
            THEN Failure(<<"SplitError">>, x.extractor)
            ELSE [returned |-> TRUE, raised |-> FALSE, success |-> TRUE,
                  error |-> <<>>,
                  documents |-> Chunks(f.chunks, DocMetadata(x)),
                  extractor |-> x.extractor,
                  full_text |-> FullText(x.content),
                  metadata |-> DocMetadata(x)]

\* one call of process_document on the file
CallProcessDocument ==
    /\ file # NoFile
    /\ result = NoResult
    /\ result' = process_document(file)
    /\ UNCHANGED <<watcher, file, ocr_result, file_paths, wave, batch_results,
                   results, calling, pdfv, enginev>>

\* one call of ocr_service.extract_text_from_image on the file
CallExtractTextFromImage(use_fallback, task_type) ==
    /\ file # NoFile
    /\ ocr_result = NoResult
    /\ ocr_result' = extract_text_from_image(file, use_fallback, task_type)
    /\ UNCHANGED <<watcher, file, result, file_paths, wave, batch_results,
                   results, calling, pdfv, enginev>>

\* a file and its world are given; the document processor is called on it
InitFile ==
    /\ WatcherInit(NoStore)
    /\ file \in FileInputs
    /\ result = NoResult
    /\ ocr_result = NoResult
    /\ file_paths = <<>>
    /\ wave = 0
    /\ batch_results = <<>>
    /\ results = NoReport
    /\ calling = "idle"
    /\ PdfIdle
    /\ EngineIdle

NextFile ==
    \/ CallProcessDocument
    \/ \E use_fallback \in BOOLEAN, task_type \in TaskTypes :
          CallExtractTextFromImage(use_fallback, task_type)

SpecFile == InitFile /\ [][NextFile]_vars

\* ----------------------------------------- process_multiple_documents, alone
MaxPaths == 6      \* paths handed to one process_multiple_documents call

\* the files a batch is made of: two that process well, with one chunk and
\* with MaxChunks chunks, and the ways a file can be invalid
GoodFiles == {[DefaultFile EXCEPT !.ext = ".txt", !.chunks = 1],
              [DefaultFile EXCEPT !.ext = ".pdf", !.chunks = MaxChunks]}
InvalidFiles ==
    {[DefaultFile EXCEPT !.exists = FALSE],
     [DefaultFile EXCEPT !.stat_ok = FALSE],
     [DefaultFile EXCEPT !.size = max_file_size_mb * MB + 1],
     [DefaultFile EXCEPT !.ext = ".exe"],
     [DefaultFile EXCEPT !.ext = ".pdf", !.extract = "fail"]}

\* the lists of paths: good files mixed with invalid files of one kind
BatchInputs ==
    UNION {[1..n -> GoodFiles \cup {bad}] :
              n \in 0..MaxPaths, bad \in InvalidFiles}

\* mutant: every wave is cut from the start of the list
BatchFiles_FromStart(i) ==
    [k \in 1..(Min(i + batch_size, Len(file_paths)) - i) |-> k]

\* batch_files = file_paths[i:i + batch_size], as positions in file_paths
BatchFiles(i) ==
    [k \in 1..(Min(i + batch_size, Len(file_paths)) - i) |-> i + k]

\* return_exceptions=True of the gather
ReturnExceptions == TRUE

\* mutant: every file counts as a document
TotalDocuments_All(res) == Len(res.successful) + Len(res.failed)

\* results["total_documents"] = len(results["successful"])
TotalDocuments(res) == Len(res.successful)

\* one (file_path, result) pair of the zip: an exception or a failed result
\* goes to "failed", a successful one to "successful" with its chunks counted;
\* origin is the path process_document was called with
CollectOne(res, path, r) ==
    IF r.raised \/ ~r.success
    THEN [res EXCEPT !.failed = Append(@, [file_path |-> path,
                                           error |-> r.error,
                                           origin |-> r.origin])]
    ELSE [res EXCEPT !.successful = Append(@, [file_path |-> path,
                                               documents |-> r.documents,
                                               metadata |-> r.metadata,
                                               origin |-> r.origin]),
                     !.total_chunks = @ + Len(r.documents)]

RECURSIVE Collect(_, _, _, _)
\* for file_path, result in zip(batch_files, batch_results), from position k
Collect(res, files, rs, k) ==
    IF k > Min(Len(files), Len(rs)) THEN res
    ELSE Collect(CollectOne(res, files[k], rs[k]), files, rs, k + 1)

\* the file as a task meets it: dots.ocr is the one engine of the service,
\* available and loaded or not for every file alike
Seen(f) ==
    [f EXCEPT !.dots_available = ocr.available, !.model_loaded = ocr.model]

\* process_document on the file reaches model.generate of the primary
\* engine: the file passes the gates, is an image, and the engine is
\* available with its model and processor loaded
Infers(f) ==
    /\ f.exists
    /\ f.stat_ok
    /\ ~TooLarge(f.size)
    /\ get_file_type(f.ext) = "image"
    /\ f.dots_available
    /\ f.model_loaded

\* mutant: the inference is handed to a thread and awaited, the loop is free
HoldsLoop_Awaited(k) == Nobody

\* model.generate is an ordinary blocking call inside the coroutine: no
\* other task of the event loop runs until the inference is over
HoldsLoop(k) == k

\* DotsOCRService.cleanup_memory: model and processor are deleted and set
\* to None
cleanup_memory(o) == [o EXCEPT !.model = FALSE]

\* _cleanup_batch_memory: the engine's memory is cleaned up if dots.ocr is
\* available
CleanupBatchMemory(o) == IF o.available THEN cleanup_memory(o) ELSE o

\* mutant: memory is cleaned up once, after the last wave
HookDue_LastWave(i) == i + batch_size >= Len(file_paths)

\* the cleanup is a statement of the loop's body: it runs after every wave
HookDue(i) == TRUE

\* the call: an empty list skips the loop, else the first wave is gathered
ProcessMany ==
    /\ calling = "idle"
    /\ loop_owner = Nobody
    /\ wave' = 0
    /\ IF Len(file_paths) = 0
       THEN /\ calling' = "returned"
            /\ results' = [NoReport EXCEPT
                              !.total_documents = TotalDocuments(NoReport)]
            /\ UNCHANGED batch_results
       ELSE /\ calling' = "gather"
            /\ results' = NoReport
            /\ batch_results' = [k \in DOMAIN BatchFiles(0) |-> NoResult]
    /\ UNCHANGED <<watcher, file, result, ocr_result, file_paths, pdfv,
                   enginev>>

\* a process_document task of the wave enters the inference of the primary
\* engine
TaskStart(k) ==
    /\ calling = "gather"
    /\ k \in DOMAIN batch_results
    /\ batch_results[k] = NoResult
    /\ k \notin inferring
    /\ loop_owner = Nobody
    /\ Infers(Seen(file_paths[BatchFiles(wave)[k]]))
    /\ inferring' = inferring \cup {k}
    /\ loop_owner' = HoldsLoop(k)
    /\ UNCHANGED <<watcher, file, result, ocr_result, file_paths, wave,
                   batch_results, results, calling, pdfv, ocr, cleanups,
                   other>>

\* one process_document task of the wave finishes, in any order; its result,
\* or its exception, goes to its own position of the gather's list; a task
\* that does not use the primary engine runs from start to end in one piece
TaskDone(k) ==
    /\ calling = "gather"
    /\ k \in DOMAIN batch_results
    /\ batch_results[k] = NoResult
    /\ loop_owner \in {Nobody, k}
    /\ k \in inferring \/ ~Infers(Seen(file_paths[BatchFiles(wave)[k]]))
    /\ inferring' = inferring \ {k}
    /\ loop_owner' = Nobody
    /\ UNCHANGED <<ocr, cleanups, other>>
    /\ LET path == BatchFiles(wave)[k]
           r == process_document(Seen(file_paths[path]))
       IN IF r.raised /\ ~ReturnExceptions
          THEN /\ calling' = "raised"
               /\ UNCHANGED batch_results
          ELSE /\ batch_results' = [batch_results EXCEPT ![k] =
                      [returned |-> TRUE, raised |-> r.raised,
                       success |-> r.success, error |-> r.error,
                       documents |-> r.documents, metadata |-> r.metadata,
                       origin |-> path]]
               /\ UNCHANGED calling
    /\ UNCHANGED <<watcher, file, result, ocr_result, file_paths, wave,
                   results, pdfv>>

\* the gather returns: the wave's results are sorted into the report and
\* memory is cleaned up, then the next wave is gathered or the report is
\* returned
CollectWave ==
    /\ calling = "gather"
    /\ \A k \in DOMAIN batch_results : batch_results[k] # NoResult
    /\ loop_owner = Nobody
    /\ IF HookDue(wave)
       THEN /\ ocr' = CleanupBatchMemory(ocr)
            /\ cleanups' = cleanups + 1
       ELSE UNCHANGED <<ocr, cleanups>>
    /\ UNCHANGED <<inferring, loop_owner, other>>
    /\ LET res == Collect(results, BatchFiles(wave), batch_results, 1)
       IN IF wave + batch_size < Len(file_paths)
          THEN /\ results' = res
               /\ wave' = wave + batch_size
               /\ batch_results' =
                     [k \in DOMAIN BatchFiles(wave + batch_size) |-> NoResult]
               /\ UNCHANGED calling
          ELSE /\ results' = [res EXCEPT
                                 !.total_documents = TotalDocuments(res)]
               /\ calling' = "returned"
               /\ UNCHANGED <<wave, batch_results>>
    /\ UNCHANGED <<watcher, file, result, ocr_result, file_paths, pdfv>>

\* a list of paths is given; process_multiple_documents is called on it
InitBatch ==
    /\ WatcherInit(NoStore)
    /\ enabled
    /\ file = NoFile
    /\ result = NoResult
    /\ ocr_result = NoResult
    /\ file_paths \in BatchInputs
    /\ wave = 0
    /\ batch_results = <<>>
    /\ results = NoReport
    /\ calling = "idle"
    /\ PdfIdle
    /\ EngineIdle

NextBatch ==
    \/ ProcessMany
    \/ \E k \in 1..batch_size : TaskDone(k)
    \/ CollectWave

SpecBatch == InitBatch /\ [][NextBatch]_vars

\* ------------------------------------------------- batches and the engine
\* the task of the second call, next to the tasks 1..batch_size of a wave
OtherTask == batch_size + 1

\* the image the second call is made with
OtherImage == [DefaultFile EXCEPT !.ext = ".png"]

\* the lists of paths: images the primary engine reads well, and text files
OcrBatchInputs ==
    UNION {[1..n -> {[DefaultFile EXCEPT !.ext = ".png"],
                     [DefaultFile EXCEPT !.ext = ".txt"]}] : n \in 0..MaxPaths}

\* a second process_multiple_documents call is made, while the first is
\* under way or after it: its wave of one image is gathered
OtherCall ==
    /\ other.pc = "idle"
    /\ loop_owner = Nobody
    /\ other' = [other EXCEPT !.pc = "gather"]
    /\ UNCHANGED <<watcher, file, result, ocr_result, file_paths, wave,
                   batch_results, results, calling, pdfv, ocr, cleanups,
                   inferring, loop_owner>>

\* its task enters the inference of the primary engine
OtherStart ==
    /\ other.pc = "gather"
    /\ OtherTask \notin inferring
    /\ loop_owner = Nobody
    /\ Infers(Seen(OtherImage))
    /\ inferring' = inferring \cup {OtherTask}
    /\ loop_owner' = HoldsLoop(OtherTask)
    /\ UNCHANGED <<watcher, file, result, ocr_result, file_paths, wave,
                   batch_results, results, calling, pdfv, ocr, cleanups,
                   other>>

\* its task finishes; the OCR method of the document is kept
OtherDone ==
    /\ other.pc = "gather"
    /\ loop_owner \in {Nobody, OtherTask}
    /\ OtherTask \in inferring \/ ~Infers(Seen(OtherImage))
    /\ inferring' = inferring \ {OtherTask}
    /\ loop_owner' = Nobody
    /\ other' = [other EXCEPT
                    !.pc = "gathered",
                    !.method =
                        process_document(Seen(OtherImage)).metadata.ocr_method]
    /\ UNCHANGED <<watcher, file, result, ocr_result, file_paths, wave,
                   batch_results, results, calling, pdfv, ocr, cleanups>>

\* its gather returns: memory is cleaned up and the call returns
OtherCollect ==
    /\ other.pc = "gathered"
    /\ loop_owner = Nobody
    /\ ocr' = CleanupBatchMemory(ocr)
    /\ other' = [other EXCEPT !.pc = "returned", !.cleanups = @ + 1]
    /\ UNCHANGED <<watcher, file, result, ocr_result, file_paths, wave,
                   batch_results, results, calling, pdfv, cleanups, inferring,
                   loop_owner>>

\* the service after the startup: dots.ocr is available on the platform or
\* not, and when it is, initialize() loaded the model or failed to
InitOcr ==
    /\ WatcherInit(NoStore)
    /\ enabled
    /\ file = NoFile
    /\ result = NoResult
    /\ ocr_result = NoResult
    /\ file_paths \in OcrBatchInputs
    /\ wave = 0
    /\ batch_results = <<>>
    /\ results = NoReport
    /\ calling = "idle"
    /\ PdfIdle
    /\ ocr \in {[available |-> a, initialized |-> TRUE, model |-> m] :
                   a \in BOOLEAN, m \in BOOLEAN} \
               {[available |-> FALSE, initialized |-> TRUE, model |-> TRUE]}
    /\ cleanups = 0
    /\ inferring = {}
    /\ loop_owner = Nobody
    /\ other = OtherIdle

NextOcr ==
    \/ ProcessMany
    \/ \E k \in 1..batch_size : TaskStart(k)
    \/ \E k \in 1..batch_size : TaskDone(k)
    \/ CollectWave
    \/ OtherCall
    \/ OtherStart
    \/ OtherDone
    \/ OtherCollect

SpecOcr == InitOcr /\ [][NextOcr]_vars

\* ============================================================ PDF extraction
MaxPages == 3      \* pages of a PDF

\* what one page does to an extractor of the text layer: it yields text, it
\* yields only white space, or the extractor raises on it
PageOutcomes == {"text", "blank", "raise"}

\* what one page does to the OCR of a rasterized PDF: "ok" (recognized, image
\* removed), "stuck" (recognized, os.remove fails), "raise" (the engine raises
\* on the saved image), "render_raise" (load_page/get_pixmap/save raise)
OcrPageOutcomes == {"ok", "stuck", "raise", "render_raise"}

\* a PDF handed to an extractor together with what the extractors meet in it
DefaultPdf ==
    [pages |-> 0, rich_open |-> TRUE, rich |-> <<>>, simple_open |-> TRUE,
     simple |-> <<>>, dots_available |-> TRUE, model_loaded |-> TRUE,
     doc_open |-> TRUE, ocr |-> <<>>]

PdfInputs ==
    UNION {{[DefaultPdf EXCEPT !.pages = n, !.rich_open = ro, !.rich = r,
                               !.simple_open = so, !.simple = s,
                               !.ocr = [i \in 1..n |-> "ok"]] :
                ro \in BOOLEAN, so \in BOOLEAN,
                r \in [1..n -> PageOutcomes], s \in [1..n -> PageOutcomes]} :
           n \in 0..MaxPages}
    \cup UNION {{[DefaultPdf EXCEPT !.pages = n, !.dots_available = da,
                                    !.model_loaded = ml, !.doc_open = op,
                                    !.rich = [i \in 1..n |-> "text"],
                                    !.simple = [i \in 1..n |-> "text"],
                                    !.ocr = o] :
                    da \in BOOLEAN, ml \in BOOLEAN, op \in BOOLEAN,
                    o \in [1..n -> OcrPageOutcomes]} :
                n \in 0..MaxPages}

\* the first page an extractor raises on, Len + 1 if it raises on none
FirstRaise(outs) ==
    IF \E i \in DOMAIN outs : outs[i] = "raise"
    THEN CHOOSE i \in DOMAIN outs :
            outs[i] = "raise" /\ \A j \in DOMAIN outs : outs[j] = "raise" => i <= j
    ELSE Len(outs) + 1

RECURSIVE PageTexts(_, _, _, _)
\* the entries {"page": page_num + 1, "content": text} an extractor appends
\* for the pages i..last: one for every page whose text is not blank
PageTexts(outs, i, last, by) ==
    IF i > last THEN <<>>
    ELSE (IF outs[i] = "text" THEN <<[page |-> i, content |-> <<by, i>>]>>
          ELSE <<>>) \o PageTexts(outs, i + 1, last, by)

\* PDFProcessor.extract_text: PyMuPDF appends to text_content page by page;
\* when it raises, PyPDF2 appends its pages to the same list; when PyPDF2
\* raises too the outer handler returns the failure
PdfExtract(f) ==
    LET rp == FirstRaise(f.rich)
        richThrows == ~f.rich_open \/ rp <= f.pages
        collected == IF f.rich_open THEN PageTexts(f.rich, 1, rp - 1, "PyMuPDF")
                     ELSE <<>>
        simpleThrows == ~f.simple_open \/ FirstRaise(f.simple) <= f.pages
    IN IF ~richThrows
       THEN [returned |-> TRUE, success |-> TRUE, content |-> collected,
             error |-> <<>>]
       ELSE IF simpleThrows
       THEN [returned |-> TRUE, success |-> FALSE, content |-> <<>>,
             error |-> <<"PyPDF2Error">>]
       ELSE [returned |-> TRUE, success |-> TRUE,
             content |-> collected \o PageTexts(f.simple, 1, f.pages, "PyPDF2"),
             error |-> <<>>]

\* one call of PDFProcessor.extract_text on the file
CallPdfExtract ==
    /\ file # NoFile
    /\ result = NoResult
    /\ result' = PdfExtract(file)
    /\ UNCHANGED <<watcher, file, ocr_result, file_paths, wave, batch_results,
                   results, calling, pdfv, enginev>>

\* what makes DotsOCRService.extract_text_from_pdf raise before its page loop
PdfOcrRaises(f) ==
    IF ~f.model_loaded THEN "Dots.OCR model not initialized"
    ELSE IF ~f.doc_open THEN "OpenError"
    ELSE "None"

\* OCRService.extract_text_from_pdf when the primary engine is unavailable or
\* raised: the error, replaced by the fallback's message when use_fallback
PdfChainFailed(err, use_fallback) ==
    [returned |-> TRUE, success |-> FALSE, method |-> "",
     error |-> IF use_fallback THEN "PDF processing fallback not available"
               ELSE err,
     total_pages |-> 0, pages |-> <<>>]

\* OCRService.extract_text_from_pdf up to the page loop of the primary engine
OcrPdfCall(use_fallback) ==
    /\ file # NoFile
    /\ pdf_pc = "idle"
    /\ IF file.dots_available /\ PdfOcrRaises(file) = "None"
       THEN /\ pdf_pc' = "pages"
            /\ page_num' = 0
            /\ all_results' = <<>>
            /\ UNCHANGED <<ocr_result, dots_result>>
       ELSE /\ pdf_pc' = "returned"
            /\ dots_result' = [returned |-> file.dots_available,
                               raised |-> file.dots_available]
            /\ ocr_result' =
                  PdfChainFailed(IF file.dots_available
                                 THEN PdfOcrRaises(file) ELSE "None",
                                 use_fallback)
            /\ UNCHANGED <<page_num, all_results>>
    /\ UNCHANGED <<watcher, file, result, file_paths, wave, batch_results,
                   results, calling, tmp_files, enginev>>

\* the temporary image of a page is on disk after the iteration of that page:
\* it was saved, and os.remove was not reached or failed
TempLeft(outcome) == outcome \in {"stuck", "raise"}

\* one iteration of the page loop: render the page to a temporary image, run
\* the engine on it, remove the image; the handler of the iteration records
\* a failed entry for whatever was raised
OcrPdfPage ==
    /\ pdf_pc = "pages"
    /\ page_num < file.pages
    /\ LET p == page_num + 1
           o == file.ocr[p]
       IN /\ all_results' = Append(all_results,
                [page_num |-> p, page_total |-> file.pages,
                 success |-> o \in {"ok", "stuck"},
                 error |-> IF o \in {"ok", "stuck"} THEN "None" ELSE o])
          /\ tmp_files' = IF TempLeft(o) THEN tmp_files \cup {p} ELSE tmp_files
          /\ page_num' = p
    /\ UNCHANGED <<watcher, file, result, ocr_result, file_paths, wave,
                   batch_results, results, calling, pdf_pc, dots_result,
                   enginev>>

\* successful_pages of DotsOCRService.extract_text_from_pdf
SuccessfulPages(rs) == Cardinality({i \in DOMAIN rs : rs[i].success})

\* after the last page: the engine returns its per-page list with
\* success = successful_pages > 0, and OCRService.extract_text_from_pdf wraps
\* what it got into its own result
OcrPdfReturn ==
    /\ pdf_pc = "pages"
    /\ page_num = file.pages
    /\ pdf_pc' = "returned"
    /\ dots_result' = [returned |-> TRUE, raised |-> FALSE,
                       success |-> SuccessfulPages(all_results) > 0,
                       pages |-> all_results, total_pages |-> file.pages,
                       successful_pages |-> SuccessfulPages(all_results)]
    /\ ocr_result' = [returned |-> TRUE, success |-> TRUE,
                      method |-> "dots.ocr", error |-> "None",
                      total_pages |-> file.pages, pages |-> all_results]
    /\ UNCHANGED <<watcher, file, result, file_paths, wave, batch_results,
                   results, calling, page_num, all_results, tmp_files,
                   enginev>>

\* a PDF and its world are given; the text-layer extractor and the OCR of
\* the rasterized pages are called on it
InitPdf ==
    /\ WatcherInit(NoStore)
    /\ enabled
    /\ file \in PdfInputs
    /\ result = NoResult
    /\ ocr_result = NoResult
    /\ file_paths = <<>>
    /\ wave = 0
    /\ batch_results = <<>>
    /\ results = NoReport
    /\ calling = "idle"
    /\ PdfIdle
    /\ EngineIdle

NextPdf ==
    \/ CallPdfExtract
    \/ \E use_fallback \in BOOLEAN : OcrPdfCall(use_fallback)
    \/ OcrPdfPage
    \/ OcrPdfReturn

SpecPdf == InitPdf /\ [][NextPdf]_vars

\* ------------------------------------------------------------------- Next
\* the steps of a scan, by whichever context runs it
ScanStep ==
    \/ \E c \in Ctx, raises \in BOOLEAN : DoScan(c, raises)
    \/ \E c \in Ctx, i \in 1..NumFiles, o \in {"ok", "fail", "exc"} :
          ProcessDocument(c, i, o)
    \/ \E c \in Ctx : WaveDone(c)
    \/ \E c \in Ctx, ok \in BOOLEAN :
          \E added \in Prefixes(Successful(batch[c])) : AddDocuments(c, ok, added)
    \/ \E c \in Ctx, writable \in BOOLEAN : MarkAndOpen(c, writable)
    \/ \E c \in Ctx, ok \in BOOLEAN : SaveProcessedFiles(c, ok)
    \/ \E c \in Ctx, stuck \in SUBSET Files : CleanupProcessedFiles(c, stuck)

\* the watcher as main.py runs it (initialize, start, the loop), force_scan
\* from the API, and crashes with restart
Next ==
    \/ \E f \in Files : WriteFile(f)
    \/ \E mkdir_ok \in BOOLEAN : Initialize(mkdir_ok)
    \/ Crash
    \/ Start
    \/ \E t \in LoopTasks : LoopRun(t)
    \/ \E t \in LoopTasks : LoopWake(t)
    \/ \E c \in ForceIds : ForceScan(c)
    \/ ScanStep

Spec == Init /\ [][Next]_vars

\* the watcher under concurrent start(), stop() and force_scan() calls from
\* the API, in one process run, with one file name in the watch directory
NextCtl ==
    \/ WriteFile(1)
    \/ \E mkdir_ok \in BOOLEAN : Initialize(mkdir_ok)
    \/ Start
    \/ \E s \in StopIds : StopCall(s)
    \/ \E s \in StopIds : StopReturn(s)
    \/ \E t \in LoopTasks : LoopRun(t)
    \/ \E t \in LoopTasks : LoopWake(t)
    \/ \E t \in LoopTasks : LoopCancelled(t)
    \/ \E c \in ForceIds : ForceScan(c)
    \/ ScanStep

SpecCtl == Init /\ [][NextCtl]_vars

\* one process after the other over a store file that may be missing,
\* damaged or left by an earlier run: initialize, start, the loop, crashes
InitStore == (\E d \in StoreFiles : WatcherInit(d)) /\ ProcIdle

NextStore ==
    \/ \E f \in Files : WriteFile(f)
    \/ \E mkdir_ok \in BOOLEAN : Initialize(mkdir_ok)
    \/ Crash
    \/ Start
    \/ \E t \in LoopTasks : LoopRun(t)
    \/ \E t \in LoopTasks : LoopWake(t)
    \/ ScanStep

SpecStore == InitStore /\ [][NextStore]_vars

\* the steps context c takes by itself once it has been started or called:
\* the loop's iterations and the steps of its scan
CtxStep(c) ==
    \/ c \in LoopTasks /\ (LoopRun(c) \/ LoopWake(c) \/ LoopCancelled(c))
    \/ \E raises \in BOOLEAN : DoScan(c, raises)
    \/ \E i \in 1..NumFiles, o \in {"ok", "fail", "exc"} : ProcessDocument(c, i, o)
    \/ WaveDone(c)
    \/ \E ok \in BOOLEAN :
          \E added \in Prefixes(Successful(batch[c])) : AddDocuments(c, ok, added)
    \/ \E writable \in BOOLEAN : MarkAndOpen(c, writable)
    \/ \E ok \in BOOLEAN : SaveProcessedFiles(c, ok)
    \/ \E stuck \in SUBSET Files : CleanupProcessedFiles(c, stuck)

\* the event loop runs every task that is ready and fires every timer that
\* is due, however often other tasks get their turn in between; extraction
\* and index calls return (no call hangs)
FairCtl == SpecCtl /\ \A c \in Ctx : SF_vars(CtxStep(c))

\* ================================================================== claims

\* C1: a fingerprint is in the ProcessedSet only if the chunks of that file
\* version were handed to the vector index; a file whose extraction failed is
\* never recorded, also when other files of its batch succeeded.
C1_ProcessedOnlyIfIndexed ==
    \A fp \in processed_files : indexed[fp] > 0

\* C2: a scan deletes a source file only if that file version was extracted
\* and its chunks were added to the vector index; a failed file stays in the
\* watch directory.
C2_DeletedOnlyIfIndexed ==
    [][\A f \in Files :
          (dir[f] # 0 /\ dir'[f] = 0) => indexed'[FileHash(f, dir[f])] > 0]_vars

\* a scan hands a batch to the orchestrator in this step
HandsBatch == \E c \in Ctx : pc[c] = "scan" /\ pc'[c] = "gather"

\* C3 (as stated): whatever the first scan did, a scan that follows a finished
\* scan with no file added or modified in between hands over no file.
C3_SecondScanHandsNothing ==
    [][HandsBatch => scanLog \notin {"ok", "failed", "error", "rescanned"}]_vars

\* C3 (amended): a scan that follows a scan whose batch was indexed (or that
\* found nothing new), with no file added or modified in between, hands over
\* no file.
C3_SecondScanAfterSuccessHandsNothing ==
    [][HandsBatch => scanLog \notin {"ok", "rescanned"}]_vars

\* a scan ran right after a successful one over a directory that still holds
\* a supported file, and found nothing new
C3_Witness ==
    /\ scanLog = "rescanned"
    /\ \E f \in Files : dir[f] # 0 /\ Ext(f) \in supported_extensions

\* C4: stop() called while the batch of the loop's scan is in flight cancels
\* the scheduling loop only: the batch is not cancelled, every file of it
\* ends as processed or as a per-file failure and the scan runs to its end.
C4_BatchSurvivesStop ==
    [][\A t \in LoopTasks : pc[t] = "gather" => pc'[t] # "done"]_vars

\* C5: stop() on a running watcher ends the interval sleep without waiting
\* for the interval, and whenever a stop() call returns, every loop task that
\* existed when it was called has exited.
C5_StopReturnsAfterLoopExit ==
    [][/\ \A t \in LoopTasks :
             (t \in cancelReq /\ pc[t] = "sleep") => pc'[t] \in {"sleep", "done"}
       /\ \A s \in StopIds :
             (stopPc[s] # "returned" /\ stopPc'[s] = "returned") =>
                \A t \in LoopTasks :
                   (stopPc[s] = "awaiting" => t <= stopAwait[s]) =>
                      pc'[t] \notin AlivePcs]_vars

\* C6: under any interleaving of start(), stop() and force_scan() at most one
\* indexing-loop task is alive, and start() on a running watcher creates no
\* task.
C6_SingleLoopTask ==
    /\ [](Cardinality(Alive) <= 1)
    /\ [][running => (nextTask' = nextTask /\ task' = task)]_vars

\* a step of a force_scan() call leaves the watcher's state and its loop
\* tasks as they are
ForceScanFrame ==
    (\E c \in ForceIds : pc'[c] # pc[c]) =>
        /\ UNCHANGED <<running, task, nextTask, cancelReq>>
        /\ \A t \in LoopTasks : pc'[t] = pc[t]

\* C8 (as stated): force_scan() runs exactly one scan, on a running and on a
\* stopped watcher alike, and leaves the running/stopped state and the loop
\* task unchanged.
C8_ForceScanScansOnce ==
    /\ [](\A c \in ForceIds : pc[c] = "returned" => fsScans[c] = 1)
    /\ [][ForceScanFrame]_vars

\* C8 (amended): with periodic indexing enabled force_scan() runs exactly one
\* scan, on a running and on a stopped watcher alike; with it disabled
\* force_scan() runs no scan; either way the running/stopped state and the
\* loop task are unchanged.
C8_ForceScanScansOnceIfEnabled ==
    /\ [](\A c \in ForceIds :
             pc[c] = "returned" => fsScans[c] = IF enabled THEN 1 ELSE 0)
    /\ [][ForceScanFrame]_vars

\* a force_scan() call has returned after its scan handed a batch to the
\* index, while the watcher is running with its loop task asleep
C8_Witness ==
    /\ \E c \in ForceIds : pc[c] = "returned" /\ fsScans[c] = 1
    /\ running /\ task # 0 /\ pc[task] = "sleep"
    /\ \E fp \in FPs : indexed[fp] > 0

\* C9: after a crash at any point of a store commit, load() yields the
\* previous snapshot or the complete new one: no fingerprint of the previous
\* snapshot is lost.
C9_CrashKeepsSnapshot ==
    (~booted /\ crashes > 0) => snapshot \subseteq LoadProcessedFiles(db)

\* C10: when the store could not be written after a successful batch, the
\* fingerprints of that batch are not recorded as done (so that a later scan
\* takes the files again).
C10_UnsavedNotRecorded ==
    \A c \in Ctx :
        (/\ pc[c] = "cleanup"
         /\ ~(Range(Successful(batch[c])) \subseteq LoadProcessedFiles(db)))
        => Range(Successful(batch[c])) \cap processed_files = {}

\* C7: while the watcher runs and stop() is not called, no scan outcome ends
\* the loop: a loop task finishes only by the cancellation of stop(), every
\* scan of the loop, failed or not, ends in the interval sleep, and after the
\* sleep the next scan starts.
C7_LoopKeepsScanning ==
    /\ [][\A t \in LoopTasks :
             (pc[t] # "done" /\ pc'[t] = "done") => t \in cancelReq]_vars
    /\ \A t \in LoopTasks :
          (pc[t] \in ScanPcs) ~> (pc[t] = "sleep" \/ t \in cancelReq)
    /\ \A t \in LoopTasks :
          (pc[t] = "sleep") ~> (pc[t] = "scan" \/ t \in cancelReq)

\* the loop is asleep again, not cancelled, after its own scan raised in the
\* walk or had its batch fail (force_scan() was never called)
C7_Witness ==
    /\ \A c \in ForceIds : pc[c] = "idle"
    /\ \E t \in LoopTasks :
          /\ pc[t] = "sleep" /\ t \notin cancelReq /\ running
          /\ scanLog \in {"error", "failed"}

\* C11: the effects of a successful batch come in the order indexed, persisted,
\* deleted: no source file is deleted before its fingerprint is in the store
\* on disk, so that after a crash and restart every file is still present,
\* recorded or not.
C11_DeletedOnlyAfterPersisted ==
    [][\A f \in Files :
          (dir[f] # 0 /\ dir'[f] = 0) =>
              FileHash(f, dir[f]) \in LoadProcessedFiles(db)]_vars

\* C12: load() of the fingerprint store never fails: over a missing, an
\* unreadable or an unparsable store file initialize() completes (nothing the
\* load raises reaches its caller) with the empty ProcessedSet.
C12_LoadNeverFails ==
    /\ [](init_error # "load")
    /\ [][(~booted /\ booted' /\ enabled /\ db.kind # "valid")
             => processed_files' = {}]_vars

\* the watcher has come up over a store file that cannot be opened or parsed
C12_Witness ==
    /\ booted /\ enabled /\ init_error = "none"
    /\ db.kind \in {"unreadable", "unparsable", "wrongshape"}
    /\ processed_files = {}

\* a commit wrote the store successfully in this step
CommitStep == \E c \in Ctx : pc[c] = "write" /\ pc'[c] = "cleanup" /\ db' # db

\* C13: after every successful commit the store holds exactly the in-memory
\* ProcessedSet together with the new fingerprints, and total_processed is
\* their number; a restart followed by load() yields the set of the last
\* commit; the in-memory set loses no fingerprint while the process runs.
C13_CommitWritesUnion ==
    /\ [][CommitStep =>
            /\ \E c \in Ctx :
                  /\ pc[c] = "write"
                  /\ LoadProcessedFiles(db') =
                        processed_files \cup MarkedHashes(batch[c])
            /\ db'.total_processed = Cardinality(LoadProcessedFiles(db'))]_vars
    /\ [][(~booted /\ booted' /\ enabled /\ db.kind = "valid")
             => processed_files' = snapshot]_vars
    /\ [][(booted /\ booted') => processed_files \subseteq processed_files']_vars

\* after a crash the restarted watcher holds the set of the last commit, which
\* has a fingerprint of this run's scans besides one of an earlier commit
C13_Witness ==
    /\ booted /\ crashes > 0 /\ db.kind = "valid"
    /\ processed_files = snapshot
    /\ Cardinality(processed_files) > 1
    /\ \E fp \in processed_files : indexed[fp] > 0

\* process_document has returned for a file that exists and can be stat'ed
Processed == result.returned /\ file.exists /\ file.stat_ok

\* C14 (as stated): for every file whose extension is outside the dispatch
\* table, whatever its size, process_document returns success=false with an
\* "unsupported file type" error and invokes no extractor.
C14_UnsupportedRejected ==
    (Processed /\ Lower(file.ext) \notin DOMAIN type_mapping) =>
        /\ ~result.success
        /\ result.error = UnsupportedError(file.ext)
        /\ result.extractor = "none"

\* C14 (amended): for every file whose extension is outside the dispatch
\* table process_document returns success=false and invokes no extractor; the
\* error is "unsupported file type" when the file is within the size limit
\* and the size-limit error when it is over it.
C14_UnsupportedRejectedAfterSizeCheck ==
    (Processed /\ Lower(file.ext) \notin DOMAIN type_mapping) =>
        /\ ~result.success
        /\ result.extractor = "none"
        /\ result.error = IF file.size > max_file_size_mb * MB
                          THEN FileTooLargeError(file.size)
                          ELSE UnsupportedError(file.ext)

\* a file of an unknown type and of a size within the limit was rejected
C14_Witness ==
    /\ Processed /\ file.ext = ".exe" /\ file.size = max_file_size_mb * MB
    /\ result.error = UnsupportedError(".exe")

\* C15: for every file whose size exceeds the configured maximum,
\* process_document returns success=false with a size-limit error naming the
\* actual and the maximum size, and no extractor is invoked; a file exactly at
\* the limit is not rejected by this check.
C15_OversizedRejected ==
    /\ (Processed /\ file.size > max_file_size_mb * MB) =>
          /\ ~result.success
          /\ result.error = <<"File too large: ", Tenths(file.size),
                              "MB (max: ", max_file_size_mb, "MB)">>
          /\ result.extractor = "none"
    /\ (Processed /\ file.size = max_file_size_mb * MB) =>
          (result.error = <<>> \/ result.error[1] # "File too large: ")

\* a file one byte over the limit, of a supported type, was rejected for its
\* size
C15_Witness ==
    /\ Processed /\ file.size = max_file_size_mb * MB + 1 /\ file.ext = ".pdf"
    /\ ~result.success /\ result.error[1] = "File too large: "

\* C16: OCR fallback chain on an image: if the primary engine throws and the
\* fallback succeeds, the result has success=true and the fallback's name as
\* method; if both throw, success=false and the error contains both
\* underlying errors; the fallback is attempted only after the primary failed
\* or was unavailable.
C16_OcrFallbackChain ==
    ocr_result.returned =>
        LET fallback == /\ ocr_result.use_fallback
                        /\ file.tesseract_available
            primaryThrows == /\ file.dots_available
                             /\ (file.dots_throws \/ ~file.model_loaded)
        IN /\ (primaryThrows /\ fallback /\ ~file.tesseract_throws) =>
                 (ocr_result.success /\ ocr_result.method = "tesseract")
           /\ (primaryThrows /\ fallback /\ file.tesseract_throws) =>
                 /\ ~ocr_result.success
                 /\ {DotsError(file), "TesseractError"} \subseteq
                        Range(ocr_result.error)
           /\ (\E i \in DOMAIN ocr_result.attempts :
                    ocr_result.attempts[i] = "tesseract") =>
                 (~file.dots_available \/ file.dots_throws
                    \/ ~file.model_loaded)

\* both engines were invoked, in order, and both threw
C16_Witness ==
    /\ ocr_result.returned /\ ~ocr_result.success
    /\ ocr_result.attempts = <<"dots.ocr", "tesseract">>
    /\ file.dots_throws /\ file.tesseract_throws

\* process_document has returned for an audio file that passed the gates
AudioProcessed ==
    /\ Processed /\ ~TooLarge(file.size)
    /\ Lower(file.ext) \in {".mp3", ".wav", ".m4a", ".flac"}

\* C19 (as stated): when the transcription collaborator is unavailable or
\* uninitialized, processing an audio file returns success=false with the
\* "Transcription service not available" error, not a generic or an
\* initialization-specific one, and the batch continues.
C19_TranscriptionUnavailable ==
    (/\ AudioProcessed
     /\ file.transcription \in {"import_error", "none", "uninitialized"}) =>
        /\ ~result.raised /\ ~result.success
        /\ result.error = <<"Transcription service not available">>

\* C19 (amended): when the transcription collaborator is unavailable (its
\* import fails or it is None) processing an audio file returns success=false
\* with the "Transcription service not available" error; when it is present
\* but uninitialized it is initialized on demand, and only if that fails the
\* file fails, with the "Transcription service initialization failed" error;
\* in no case an exception leaves process_document, so the batch continues.
C19_TranscriptionUnavailableOrInitFailed ==
    AudioProcessed =>
        /\ ~result.raised
        /\ file.transcription \in {"import_error", "none"} =>
              /\ ~result.success
              /\ result.error = <<"Transcription service not available">>
        /\ (file.transcription = "uninitialized" /\ ~file.init_ok) =>
              /\ ~result.success
              /\ result.error[1] = "Transcription service initialization failed: "
        /\ (/\ file.transcription = "uninitialized" /\ file.init_ok
            /\ file.transcribe = "ok" /\ file.extract # "raise") =>
              result.success

\* an audio file was processed while the collaborator was None
C19_Witness ==
    /\ AudioProcessed /\ file.transcription = "none"
    /\ result.error = <<"Transcription service not available">>

\* a path the claims call invalid: missing, gone before stat(), oversized, of
\* an unsupported type, or failing in extraction or chunking
Invalid(f) ==
    \/ ~f.exists \/ ~f.stat_ok
    \/ f.size > max_file_size_mb * MB
    \/ Lower(f.ext) \notin DOMAIN type_mapping
    \/ f.extract # "ok"

RECURSIVE SumChunks(_)
\* the chunk counts of a list of report entries, added up
SumChunks(entries) ==
    IF entries = <<>> THEN 0
    ELSE Len(Head(entries).documents) + SumChunks(Tail(entries))

\* C17: for a batch of n paths of which k are invalid, the report has
\* total_documents = n - k and a failed list of length k, and total_chunks is
\* the sum of the chunk counts of the successful entries.
C17_BatchCounts ==
    calling = "returned" =>
        LET n == Len(file_paths)
            k == Cardinality({i \in 1..n : Invalid(file_paths[i])})
        IN /\ results.total_documents = n - k
           /\ Len(results.failed) = k
           /\ results.total_chunks = SumChunks(results.successful)

\* a two-wave batch was reported with several documents and several failures
C17_Witness ==
    /\ calling = "returned" /\ wave = batch_size
    /\ results.total_documents >= 2 /\ Len(results.failed) >= 2
    /\ results.total_chunks > results.total_documents

\* C18: process_multiple_documents never raises because a file failed or
\* threw; every input path appears exactly once in the report, in successful
\* or in failed, with the result of that same path, whatever the order in
\* which the files of a wave finish; successful entries follow input order.
C18_EveryPathReportedOnce ==
    /\ calling # "raised"
    /\ calling = "returned" =>
          LET S == results.successful
              F == results.failed
          IN /\ \A i \in 1..Len(file_paths) :
                   Cardinality({j \in DOMAIN S : S[j].file_path = i})
                   + Cardinality({j \in DOMAIN F : F[j].file_path = i}) = 1
             /\ \A j \in DOMAIN S :
                   /\ S[j].origin = S[j].file_path
                   /\ process_document(file_paths[S[j].file_path]).success
                   /\ S[j].documents =
                         process_document(file_paths[S[j].file_path]).documents
             /\ \A j \in DOMAIN F :
                   /\ F[j].origin = F[j].file_path
                   /\ ~process_document(file_paths[F[j].file_path]).success
                   /\ F[j].error =
                         process_document(file_paths[F[j].file_path]).error
             /\ \A j, k \in DOMAIN S : j < k => S[j].file_path < S[k].file_path

\* a two-wave batch was reported in which process_document threw for a file
\* of the first wave and a file of the second wave was processed
C18_Witness ==
    /\ calling = "returned"
    /\ \E j \in DOMAIN results.failed :
          /\ results.failed[j].error = <<"OSError">>
          /\ results.failed[j].file_path <= batch_size
    /\ \E j \in DOMAIN results.successful :
          results.successful[j].file_path > batch_size

\* C20 (as stated): after start(), each loop iteration first sleeps for
\* scan_interval and then scans: the loop enters a scan only from an interval
\* sleep that has elapsed, never before one full interval since start().
C20_SleepsBeforeScan ==
    [][\A t \in LoopTasks :
          (pc[t] # "scan" /\ pc'[t] = "scan") => pc[t] = "sleep"]_vars

\* C20 (amended): after start(), each loop iteration first scans and then
\* sleeps for scan_interval: the first step of the loop task starts a scan
\* without waiting, every later scan starts from an elapsed interval sleep,
\* and the loop goes to sleep only from a scan.
C20_ScansBeforeSleep ==
    [][\A t \in LoopTasks :
          /\ (pc[t] = "created" /\ pc'[t] \notin {"created", "done"})
                => pc'[t] = "scan"
          /\ (pc[t] # "scan" /\ pc'[t] = "scan")
                => pc[t] \in {"created", "sleep"}
          /\ (pc[t] # "sleep" /\ pc'[t] = "sleep") => pc[t] \in ScanPcs]_vars

\* the loop task is in its first scan: no scan has finished, no file was
\* written and force_scan() was not called since the watcher was constructed
C20_Witness ==
    /\ running /\ task = 1 /\ pc[1] = "scan"
    /\ scanLog = "none"
    /\ \A f \in Files : ver[f] = 0
    /\ \A c \in ForceIds : pc[c] = "idle"


\* C28: when force_scan() runs while the loop's own scan is in progress, no
\* file is handed to the orchestrator by both scans: the batches in flight
\* share no file version and each file version is added to the vector index
\* at most once.
C28_NoDoubleHandOver ==
    /\ \A c, d \in Ctx :
          c # d => Range(batch[c].files) \cap Range(batch[d].files) = {}
    /\ \A fp \in FPs : indexed[fp] <= 1

\* the hand-over of context c's batch to the vector index ends in this step
\* without the chunks of every successful file added: add_documents failed
HandOverFailed(c) ==
    /\ pc[c] = "index" /\ pc'[c] # "index" /\ booted'
    /\ \E fp \in Range(Successful(batch[c])) : indexed'[fp] = indexed[fp]

\* C29: when handing the chunks to the vector index fails for a scan's batch,
\* the scan ends there and changes nothing: the ProcessedSet in memory and the
\* store on disk are unchanged and no source file is deleted, so every file
\* of the batch that is still in the directory is new to the next scan.
C29_FailedHandOverChangesNothing ==
    [][\A c \in Ctx : HandOverFailed(c) =>
          /\ pc'[c] \in {"sleep", "returned"}
          /\ UNCHANGED <<processed_files, db, dir>>
          /\ \A fp \in Range(batch[c].files) :
                (dir[fp[1]] = fp[2] /\ fp \notin processed_files)
                    => fp \in NewFiles']_vars

\* a scan has ended in a failed hand-over that left chunks of a file in the
\* index: the file is still in the directory and new, and no scan is running
C29_Witness ==
    /\ crashes = 0 /\ scanLog = "failed"
    /\ \A c \in Ctx : pc[c] \notin ScanPcs
    /\ \E fp \in NewFiles : indexed[fp] = 1

\* C23: OCR of a rasterized PDF: the temporary image of every page is deleted
\* before the next page is processed, also when the OCR of that page throws,
\* and none is left when the call returns (an image whose os.remove itself
\* failed aside).
C23_TempImagesDeleted ==
    pdf_pc \in {"pages", "returned"} =>
        \A p \in tmp_files : file.ocr[p] = "stuck"

\* the engine has returned from extract_text_from_pdf with its per-page list
PdfOcrReturned ==
    pdf_pc = "returned" /\ dots_result.returned /\ ~dots_result.raised

\* C24: OCR of a PDF: a page whose OCR fails is a failed entry of the per-page
\* list and the pages after it are still processed; the result reports
\* success exactly when at least one page succeeded, at the engine level and
\* at the level of the fallback chain alike.
C24_PdfSucceedsIffAPageDid ==
    PdfOcrReturned =>
        LET pages == dots_result.pages
            someOk == \E i \in 1..file.pages : file.ocr[i] \in {"ok", "stuck"}
        IN /\ Len(pages) = file.pages
           /\ \A i \in DOMAIN pages :
                 /\ pages[i].page_num = i
                 /\ pages[i].success <=> file.ocr[i] \in {"ok", "stuck"}
           /\ dots_result.success <=> someOk
           /\ ocr_result.pages = pages
           /\ ocr_result.success <=> someOk

\* C30: PDF extraction with fallback: when the rich text-layer extractor
\* throws at any page, the content of the result is exactly the per-page
\* output of the simple extractor; every page number appears at most once in
\* the content; the file fails only when both extractors throw.
C30_FallbackReplacesRichOutput ==
    (result.returned /\ file \in PdfInputs) =>
        LET richThrows == ~file.rich_open \/ FirstRaise(file.rich) <= file.pages
            simpleThrows ==
                ~file.simple_open \/ FirstRaise(file.simple) <= file.pages
        IN /\ (richThrows /\ ~simpleThrows) =>
                 /\ result.success
                 /\ result.content =
                        PageTexts(file.simple, 1, file.pages, "PyPDF2")
           /\ \A i, j \in DOMAIN result.content :
                 i < j => result.content[i].page # result.content[j].page
           /\ ~result.success <=> (richThrows /\ simpleThrows)

\* process_document has returned for an image that passed the gates
ImageProcessed ==
    /\ Processed /\ ~TooLarge(file.size) /\ file.extract = "ok"
    /\ Lower(file.ext) \in {".png", ".jpg", ".jpeg", ".tiff", ".bmp"}

\* the primary engine is available, loaded and does not raise on the image
PrimaryRuns ==
    file.dots_available /\ file.model_loaded /\ ~file.dots_throws

\* C25: when the primary engine's output for a full or layout_only task is
\* not valid JSON the chain returns success=true with the raw text and
\* parsed=null, without a fallback attempt; the image extractor then returns
\* exactly one raw_text content item holding that text (which is all of the
\* normalized text); a successful image extraction never has an empty
\* content list.
C25_UnparsableOutputKeptAsRawText ==
    /\ (/\ ocr_result.returned /\ "task_type" \in DOMAIN ocr_result
        /\ ocr_result.task_type \in {"full", "layout_only"}
        /\ PrimaryRuns /\ file.dots_output = "not_json") =>
          /\ ocr_result.success
          /\ ocr_result.method = "dots.ocr"
          /\ ocr_result.text = <<"DotsText">>
          /\ ocr_result.parsed = NoParse
          /\ ocr_result.attempts = <<"dots.ocr">>
    /\ (ImageProcessed /\ PrimaryRuns /\ file.dots_output = "not_json") =>
          /\ ImageExtract(file).content =
                <<[type |-> "raw_text", content |-> <<"DotsText">>]>>
          /\ result.success
          /\ result.full_text = <<<<"DotsText">>>>
    /\ (ImageProcessed /\ ImageExtract(file).success) =>
          /\ ImageExtract(file).content # <<>>
          /\ result.success /\ result.full_text # <<>>

\* an image whose primary output is not JSON went through the chain as a
\* layout_only task and through process_document
C25_Witness ==
    /\ ImageProcessed /\ PrimaryRuns /\ file.dots_output = "not_json"
    /\ result.success /\ result.metadata.ocr_method = "dots.ocr"
    /\ ~result.metadata.has_layout_info
    /\ ocr_result.returned /\ ocr_result.task_type = "layout_only"
    /\ ocr_result.success /\ ocr_result.parsed = NoParse

\* the normalized text has the text of the i-th layout element between the
\* table markers
TableMarked(text, i) ==
    \E k \in DOMAIN text :
        /\ k + 2 <= Len(text)
        /\ text[k] = TableOpen
        /\ text[k + 1] = ElementText("Table", i)
        /\ text[k + 2] = TableClose

\* C26: for an image whose primary OCR result is a layout JSON that contains
\* a Table element, the normalized text contains that element's content
\* between the table open and close markers, and the document metadata and
\* every chunk's metadata have has_tables=true; has_tables is never true for
\* a document without a table item.
C26_TableMarkedAndFlagged ==
    /\ (/\ ImageProcessed /\ PrimaryRuns
        /\ file.dots_output \in {"object", "array"}) =>
          \A i \in DOMAIN file.elements :
              file.elements[i] = "Table" =>
                  /\ result.success
                  /\ TableMarked(result.full_text, i)
                  /\ result.metadata.has_tables
                  /\ \A k \in DOMAIN result.documents :
                        result.documents[k].metadata.has_tables
    /\ (Processed /\ result.success /\ result.metadata.has_tables) =>
          \E k \in DOMAIN result.full_text : result.full_text[k] = TableOpen


\* ---------------------------------------------------------------- C21
\* C21: within one call of process_multiple_documents the waves are strictly
\* sequential.  While a wave is gathered, every path before it has its entry
\* in the report and the memory cleanup has run once for each earlier wave,
\* and the extractions in flight are paths of this wave only, at most
\* batch_size of them; when the call returns the cleanup has run once per
\* wave.
InFlight == {k \in DOMAIN batch_results : batch_results[k] = NoResult}
C21_WavesSequential ==
    /\ calling = "gather" =>
          /\ Len(results.successful) + Len(results.failed) = wave
          /\ cleanups = wave \div batch_size
          /\ DOMAIN batch_results = DOMAIN BatchFiles(wave)
          /\ Cardinality(InFlight) <= batch_size
    /\ calling = "returned" =>
          cleanups = (Len(file_paths) + batch_size - 1) \div batch_size

\* the extractions of the second wave have finished, after a full first
\* wave and its cleanup
C21_Witness ==
    /\ calling = "gather"
    /\ wave = batch_size
    /\ cleanups = 1
    /\ InFlight = {}
    /\ Len(results.successful) + Len(results.failed) = batch_size

\* ---------------------------------------------------------------- C22
\* C22: access to the primary OCR engine is serialized.  Under every
\* interleaving of the image extractions of a wave and of a second call, at
\* most one inference of the primary engine is executing, and no memory
\* cleanup, of either call, runs while an inference is in progress.
HookRuns == cleanups' # cleanups \/ other'.cleanups # other.cleanups
C22_InferenceSerialized ==
    /\ [](Cardinality(inferring) <= 1)
    /\ [][HookRuns => inferring = {}]_vars

\* the second call's image is inside the inference while images of the
\* first call's wave wait for the engine
C22_Witness ==
    /\ inferring = {OtherTask}
    /\ calling = "gather"
    /\ \E k \in InFlight : Infers(Seen(file_paths[BatchFiles(wave)[k]]))
    /\ \E k \in DOMAIN batch_results : batch_results[k] # NoResult

\* ---------------------------------------------------------------- C27
\* C27: the memory cleanup after a wave leaves the primary engine usable.
\* If an image of an earlier wave was read by the primary engine (so the
\* engine was initialized), an image of a later wave of the call, on which
\* the primary engine would succeed, has the primary engine as its OCR
\* method too, not the fallback.
WaveOf(path) == (path - 1) \div batch_size
ReadByPrimary(e) ==
    /\ get_file_type(file_paths[e.origin].ext) = "image"
    /\ e.metadata.ocr_method = "dots.ocr"
C27_EngineUsableAfterHook ==
    \A i, j \in DOMAIN results.successful :
       LET a == results.successful[i]
           b == results.successful[j]
       IN (/\ ReadByPrimary(a)
           /\ WaveOf(a.origin) < WaveOf(b.origin)
           /\ get_file_type(file_paths[b.origin].ext) = "image"
           /\ ~file_paths[b.origin].dots_throws)
          => b.metadata.ocr_method = "dots.ocr"
====
